---- MODULE Spec2Model ----
(***************************************************************************)
(* Model of the complex-ensemble manager of the Multistrand kinetic        *)
(* simulator (src/state/scomplexlist.cc): the linked list of               *)
(* SComplexListEntry objects, the flux bookkeeping, the event dispatcher   *)
(* doBasicChoice / doJoinChoice and the stop-condition evaluator.          *)
(*                                                                         *)
(* Rates are doubles in the source; the model measures them in integer     *)
(* units, so that a deviate "choice" ranges over 0 .. total-1.             *)
(***************************************************************************)
EXTENDS Integers, Sequences, FiniteSets, TLC

VARIABLES
    first,       \* the list of entries reachable from SComplexList::first, head at index 1
    numentries,  \* SComplexList::numentries
    idcounter,   \* SComplexList::idcounter
    joinRate,    \* SComplexList::joinRate (cached by getTotalFlux)
    total,       \* the value returned by the driver's last getTotalFlux call
    pc,          \* position of the driver: "setup", "flux", "step", "dead", "abort", "check"
    last,        \* what the last operation did (picked entry, residual, returned entry)
    stoplist,    \* the driver's list of stop predicates (complex_item list)
    stopResult   \* result of the last checkStopComplexList call

vars == <<first, numentries, idcounter, joinRate, total, pc, last, stoplist, stopResult>>

----------------------------------------------------------------------------
(* Bounds of the model *)

\* complexes added by the driver before initializeList
MaxEntries == 3
\* exterior bases a complex can expose (all four types together)
MaxBase == 1
\* total flux of a complex that has a move (a complex without one has flux 0)
MaxRate == 2
\* cap on the id counter: stops unbounded disassociation histories
MaxId == 4

----------------------------------------------------------------------------
(* External collaborators: the energy model and the strand complex *)

\* EnergyModel::getJoinRate
KJoin == 2
\* EnergyModel::getVolumeEnergy
VolumeEnergy == 3
\* EnergyModel::getAssocEnergy
AssocEnergy == 5

NULL == -1

\* struct exterior_bases: counts of exterior bases of each type
ExtSet ==
    { e \in [A : 0..MaxBase, C : 0..MaxBase, G : 0..MaxBase, T : 0..MaxBase] :
        e.A + e.C + e.G + e.T <= MaxBase }

ZeroBases == [A |-> 0, C |-> 0, G |-> 0, T |-> 0]

\* A StrandComplex as the list sees it: its strand ids in order, and what
\* getExteriorBases, getTotalFlux and getEnergy currently return.
Complex(ids, k) == [ids |-> ids, ext |-> k.ext, flux |-> k.flux, energy |-> k.energy]

\* What a complex can report after a move: any tally of exterior bases, and
\* either no move at all (flux 0) or the flux MaxRate. The raw free energy
\* falls with the flux (every base pair that can open lowers it).
Conformations ==
    { [ext |-> e, flux |-> f, energy |-> 0 - f] : e \in ExtSet, f \in {0, MaxRate} }

\* StrandComplex::getStrandCount
getStrandCount(c) == Len(c.ids)

----------------------------------------------------------------------------
(* SComplexListEntry *)

\* a constructor that fills the caches from the complex at once
NewEntry_Filled(newComplex, newid) ==
    [thisComplex |-> newComplex,
     energy |-> newComplex.energy
                  + (VolumeEnergy + AssocEnergy) * (getStrandCount(newComplex) - 1),
     rate |-> newComplex.flux,
     id |-> newid]

\* SComplexListEntry::SComplexListEntry
NewEntry(newComplex, newid) ==
    [thisComplex |-> newComplex, energy |-> 0, rate |-> 0, id |-> newid]

\* SComplexListEntry::fillData
fillData(entry) ==
    [entry EXCEPT
        !.energy = entry.thisComplex.energy
                     + (VolumeEnergy + AssocEnergy) * (getStrandCount(entry.thisComplex) - 1),
        !.rate = entry.thisComplex.flux]

----------------------------------------------------------------------------
(* SComplexList: flux bookkeeping *)

RECURSIVE SumRates(_)
\* the loop of getTotalFlux: head-to-tail sum of the cached rates
SumRates(list) ==
    IF list = <<>> THEN 0 ELSE Head(list).rate + SumRates(Tail(list))

RECURSIVE SumBases(_)
\* first pass of getJoinFlux / doJoinChoice: total exterior bases of all entries
SumBases(list) ==
    IF list = <<>> THEN ZeroBases
    ELSE LET e == Head(list).thisComplex.ext
             r == SumBases(Tail(list))
         IN [A |-> e.A + r.A, C |-> e.C + r.C, G |-> e.G + r.G, T |-> e.T + r.T]

\* total_bases -= ext_bases
SubBases(t, e) == [A |-> t.A - e.A, C |-> t.C - e.C, G |-> t.G - e.G, T |-> t.T - e.T]

\* the four increments of total_move_count for one entry
MovesWith(t, e) == t.A * e.T + t.T * e.A + t.G * e.C + t.C * e.G

RECURSIVE CountMoves_CountFirst(_, _)
\* the second pass that counts before it subtracts the entry's own bases
CountMoves_CountFirst(list, total_bases) ==
    IF list = <<>> THEN 0
    ELSE LET e == Head(list).thisComplex.ext
             t == SubBases(total_bases, e)
         IN MovesWith(total_bases, e) + CountMoves_CountFirst(Tail(list), t)

RECURSIVE CountMoves(_, _)
\* second pass of getJoinFlux: subtract the entry's bases, then count
CountMoves(list, total_bases) ==
    IF list = <<>> THEN 0
    ELSE LET e == Head(list).thisComplex.ext
             t == SubBases(total_bases, e)
         IN MovesWith(t, e) + CountMoves(Tail(list), t)

\* total_move_count of getJoinFlux for a list
total_move_count(list) == CountMoves(list, SumBases(list))

\* SComplexList::getJoinFlux
getJoinFlux(list, n) ==
    IF n <= 1 THEN 0
    ELSE IF total_move_count(list) = 0 THEN 0
    ELSE total_move_count(list) * KJoin

\* the value SComplexList::getTotalFlux returns
TotalFlux(list, n) == SumRates(list) + getJoinFlux(list, n)

----------------------------------------------------------------------------
(* Initial state: SComplexList::SComplexList *)

NoOp == [op |-> "none", picked |-> NULL, residual |-> 0, ret |-> NULL]

Init ==
    /\ first = <<>>
    /\ numentries = 0
    /\ idcounter = 0
    /\ joinRate = 0
    /\ total = 0
    /\ pc = "setup"
    /\ last = NoOp
    /\ stoplist = <<>>
    /\ stopResult = FALSE

\* addComplex that numbers the new entry by the length of the list
addComplex_ReuseId(list, newComplex, idc) == <<NewEntry(newComplex, Len(list))>> \o list

\* an insertion at the tail of the list
addComplex_AtTail(list, newComplex, idc) == list \o <<NewEntry(newComplex, idc)>>

\* SComplexList::addComplex: the list after the call
addComplex(list, newComplex, idc) == <<NewEntry(newComplex, idc)>> \o list

\* The driver adds one single-stranded complex to the ensemble.
AddComplex ==
    /\ pc = "setup"
    /\ numentries < MaxEntries
    /\ \E k \in Conformations :
         LET c == Complex(<<idcounter + 1>>, k)
         IN /\ first' = addComplex(first, c, idcounter)
            /\ last' = [NoOp EXCEPT !.op = "add", !.ret = idcounter]
    /\ numentries' = numentries + 1
    /\ idcounter' = idcounter + 1
    /\ UNCHANGED <<joinRate, total, pc, stoplist, stopResult>>

\* SComplexList::initializeList
initializeList(list) == [i \in 1..Len(list) |-> fillData(list[i])]

InitializeList ==
    /\ pc = "setup"
    /\ numentries >= 1
    /\ first' = initializeList(first)
    /\ pc' = "flux"
    /\ last' = [NoOp EXCEPT !.op = "init"]
    /\ UNCHANGED <<numentries, idcounter, joinRate, total, stoplist, stopResult>>

\* getTotalFlux that leaves the cached joinRate alone
GetTotalFlux_NoStore ==
    /\ pc = "flux"
    /\ total' = SumRates(first) + getJoinFlux(first, numentries)
    /\ pc' = IF total' = 0 THEN "dead" ELSE "step"
    /\ last' = [NoOp EXCEPT !.op = "flux"]
    /\ UNCHANGED <<first, numentries, idcounter, joinRate, stoplist, stopResult>>

\* a getTotalFlux that computes the join flux at the first query only
GetTotalFlux_JoinOnce ==
    /\ pc = "flux"
    /\ joinRate' = IF last.op = "init" THEN getJoinFlux(first, numentries) ELSE joinRate
    /\ total' = SumRates(first) + joinRate'
    /\ pc' = IF total' = 0 THEN "dead" ELSE "step"
    /\ last' = [NoOp EXCEPT !.op = "flux"]
    /\ UNCHANGED <<first, numentries, idcounter, stoplist, stopResult>>

\* SComplexList::getTotalFlux, called by the driver before every step
GetTotalFlux ==
    /\ pc = "flux"
    /\ joinRate' = getJoinFlux(first, numentries)
    /\ total' = SumRates(first) + joinRate'
    /\ pc' = IF total' = 0 THEN "dead" ELSE "step"
    /\ last' = [NoOp EXCEPT !.op = "flux"]
    /\ UNCHANGED <<first, numentries, idcounter, stoplist, stopResult>>

----------------------------------------------------------------------------
(* SComplexList::doJoinChoice: resolution of the deviate to a concrete join *)

\* nothing picked: picked[] = {NULL, NULL}, types[] = {0, 0}, index[] = {0, 0}
NoJoin == [p0 |-> 0, p1 |-> 0, t0 |-> 0, t1 |-> 0, i0 |-> 0, i1 |-> 0]

RECURSIVE Partner_Swapped(_, _, _, _, _)
\* the inner loop with the quotient and the remainder exchanged
Partner_Swapped(list, j, int_choice, x, ey) ==
    IF j > Len(list) THEN [p1 |-> 0, i0 |-> 0, i1 |-> 0]
    ELSE LET ex == list[j].thisComplex.ext[x]
         IN IF int_choice < ex * ey
            THEN [p1 |-> j,
                  i0 |-> int_choice - (int_choice \div ex) * ex,
                  i1 |-> int_choice \div ex]
            ELSE Partner_Swapped(list, j + 1, int_choice - ex * ey, x, ey)

RECURSIVE Partner_NoCarry(_, _, _, _, _)
\* the inner loop without the subtraction of the windows it passes
Partner_NoCarry(list, j, int_choice, x, ey) ==
    IF j > Len(list) THEN [p1 |-> 0, i0 |-> 0, i1 |-> 0]
    ELSE LET ex == list[j].thisComplex.ext[x]
         IN IF int_choice < ex * ey
            THEN [p1 |-> j,
                  i0 |-> int_choice \div ex,
                  i1 |-> int_choice - (int_choice \div ex) * ex]
            ELSE Partner_NoCarry(list, j + 1, int_choice, x, ey)

RECURSIVE Partner(_, _, _, _, _)
\* The inner while loop of a channel: walk the entries after picked[0] until
\* the window holding int_choice is found. x is the base type counted on the
\* partner, ey the count of the complementary type on picked[0]. The positions
\* in the list stand for the complex pointers (0 is NULL).
Partner(list, j, int_choice, x, ey) ==
    IF j > Len(list) THEN [p1 |-> 0, i0 |-> 0, i1 |-> 0]
    ELSE LET ex == list[j].thisComplex.ext[x]
         IN IF int_choice < ex * ey
            THEN [p1 |-> j,
                  i0 |-> int_choice \div ex,
                  i1 |-> int_choice - (int_choice \div ex) * ex]
            ELSE Partner(list, j + 1, int_choice - ex * ey, x, ey)

\* a channel window was hit at entry i
Picked(list, i, int_choice, t0, t1, x, ey) ==
    LET q == Partner(list, i + 1, int_choice, x, ey)
    IN [p0 |-> i, p1 |-> q.p1, t0 |-> t0, t1 |-> t1, i0 |-> q.i0, i1 |-> q.i1]

RECURSIVE Resolve(_, _, _, _)
\* The outer while loop of doJoinChoice, lines 407-531: channels tested in the
\* order A/T, T/A, G/C, C/G at each entry, after subtracting its bases.
Resolve(list, i, total_bases, int_choice) ==
    IF i > Len(list) THEN NoJoin
    ELSE LET e   == list[i].thisComplex.ext
             t   == SubBases(total_bases, e)
             c1  == int_choice - t.A * e.T
             c2  == c1 - t.T * e.A
             c3  == c2 - t.G * e.C
             c4  == c3 - t.C * e.G
         IN IF int_choice < t.A * e.T THEN Picked(list, i, int_choice, 4, 1, "A", e.T)
            ELSE IF c1 < t.T * e.A THEN Picked(list, i, c1, 1, 4, "T", e.A)
            ELSE IF c2 < t.G * e.C THEN Picked(list, i, c2, 2, 3, "G", e.C)
            ELSE IF c3 < t.C * e.G THEN Picked(list, i, c3, 3, 2, "C", e.G)
            ELSE Resolve(list, i + 1, t, c4)

\* int_choice = (int) floor(choice / getJoinRate())
IntChoice(choice) == choice \div KJoin

\* the join doJoinChoice hands to StrandComplex::performComplexJoin
JoinChoice(list, choice) == Resolve(list, 1, SumBases(list), IntChoice(choice))

\* the entry handed to delete with its next link left as it was: the entries
\* that followed it are still linked from it
Detached_Linked(list, deleted) == SubSeq(list, deleted, Len(list))

\* temp2->next = NULL before delete temp2 (lines 546-547 and 555-556): the
\* chain of entries linked from the entry handed to delete is that entry alone
Detached(list, deleted) == SubSeq(list, deleted, deleted)

RECURSIVE Destructor(_)
\* SComplexListEntry::~SComplexListEntry on the head of a chain: it deletes
\* thisComplex and then, when next is not NULL, the next entry. The result
\* lists the ids of the entries destroyed, each with its complex, in order.
Destructor(chain) ==
    IF chain = <<>> THEN <<>>
    ELSE <<Head(chain).id>> \o Destructor(Tail(chain))

\* an unlinking that leaves the deleted entry linked where it is
Unlink_None(list, deleted) == list

\* the unlinking that only handles the head of the list
Unlink_HeadOnly(list, deleted) == IF deleted = 1 THEN Tail(list) ELSE list

\* The for loop of lines 538-551 followed by the test of first, lines 552-559:
\* the entry whose complex is the deleted one is unlinked and destroyed.
\* `deleted` is the position of that entry before the call.
Unlink(list, deleted) ==
    [k \in 1..(Len(list) - 1) |-> IF k < deleted THEN list[k] ELSE list[k + 1]]

\* the refresh of lines 540-541: fillData on the entry holding picked[0]
RefreshPicked(list, p0) ==
    [k \in 1..Len(list) |-> IF k = p0 THEN fillData(list[k]) ELSE list[k]]

\* numentries decremented where the entry is destroyed and again at the end
JoinedCount_Twice(n) == n - 2

\* numentries-- at the end of doJoinChoice
JoinedCount(n) == n - 1

\* StrandComplex::performComplexJoin: picked[0] becomes the merged complex,
\* the other complex is returned for deletion.
Merged(c0, c1, k) == Complex(c0.ids \o c1.ids, k)

----------------------------------------------------------------------------
(* SComplexList::doBasicChoice *)

RECURSIVE Walk_Le(_, _, _)
\* the walk with <= in place of the strict comparison
Walk_Le(list, i, rchoice) ==
    IF i > Len(list) THEN [picked |-> 0, rchoice |-> rchoice]
    ELSE IF rchoice <= list[i].rate THEN [picked |-> i, rchoice |-> rchoice]
    ELSE Walk_Le(list, i + 1, rchoice - list[i].rate)

RECURSIVE Walk(_, _, _)
\* The while loop of lines 321-336. Returns the position of the picked entry
\* (0 when pickedComplex stays NULL) and rchoice when the loop ends.
Walk(list, i, rchoice) ==
    IF i > Len(list) THEN [picked |-> 0, rchoice |-> rchoice]
    ELSE IF rchoice < list[i].rate THEN [picked |-> i, rchoice |-> rchoice]
    ELSE Walk(list, i + 1, rchoice - list[i].rate)

\* what the walk finds for a deviate that was not routed to the join engine
BasicChoice(list, choice, jr) == Walk(list, 1, choice - jr)

\* the list with the complex of the entry at position p replaced (a move
\* changes the complex in place; the entry's caches are untouched)
WithComplex(list, p, c) ==
    [k \in 1..Len(list) |-> IF k = p THEN [list[k] EXCEPT !.thisComplex = c] ELSE list[k]]

\* a disassociation that refreshes the new entry only
SplitList_NewOnly(list, p, c1, c2, idc) ==
    RefreshPicked(addComplex(WithComplex(list, p, c1), c2, idc), 1)

\* Lines 344-349: the picked complex is now c1, the complex doChoice returned
\* is c2; addComplex(c2), then fillData on the new entry and on the picked one.
SplitList(list, p, c1, c2, idc) ==
    RefreshPicked(RefreshPicked(addComplex(WithComplex(list, p, c1), c2, idc), 1), p + 1)

\* doJoinChoice when performComplexJoin returns picked[d] for deletion and
\* leaves the merged complex in the other picked complex. The loop of lines
\* 538-551 calls fillData on the entry of picked[0] and on no other entry.
DoJoinReturning(choice, d) ==
    LET j == JoinChoice(first, choice)
    IN IF numentries <= 1
       THEN \* doJoinChoice returns at line 392 without touching the ensemble
            /\ last' = [NoOp EXCEPT !.op = "nojoin"]
            /\ pc' = "flux"
            /\ UNCHANGED <<first, numentries, idcounter>>
       ELSE IF j.p0 = 0 \/ j.p1 = 0
       THEN \* performComplexJoin is handed a NULL complex
            /\ last' = [NoOp EXCEPT !.op = "badjoin"]
            /\ pc' = "abort"
            /\ UNCHANGED <<first, numentries, idcounter>>
       ELSE LET kept == IF d = 1 THEN j.p0 ELSE j.p1
                gone == IF d = 1 THEN j.p1 ELSE j.p0
            IN /\ last' = [op |-> "join", picked |-> first[kept].id,
                           residual |-> 0, ret |-> NULL,
                           deleted |-> first[gone].id,
                           freed |-> Destructor(Detached(first, gone))]
               /\ numentries' = JoinedCount(numentries)
               /\ pc' = "flux"
               /\ UNCHANGED idcounter
               /\ \E k \in Conformations :
                    LET m  == Merged(first[j.p0].thisComplex, first[j.p1].thisComplex, k)
                        l1 == WithComplex(first, kept, m)
                    IN first' = Unlink(RefreshPicked(l1, j.p0), gone)

\* the branch of doBasicChoice that calls doJoinChoice and returns NULL;
\* performComplexJoin merges into picked[0] and returns picked[1]
DoJoin(choice) == DoJoinReturning(choice, 1)

\* the unimolecular branch of doBasicChoice, lines 321-353
DoMove(choice) ==
    LET w == BasicChoice(first, choice, joinRate)
        p == w.picked
    IN IF p = 0
       THEN \* assert( pickedComplex != NULL ) fails
            /\ last' = [NoOp EXCEPT !.op = "assert"]
            /\ pc' = "abort"
            /\ UNCHANGED <<first, numentries, idcounter>>
       ELSE LET c == first[p].thisComplex
            IN \/ \* doChoice returns NULL: the move stays inside the complex
                  /\ last' = [op |-> "move", picked |-> first[p].id,
                              residual |-> w.rchoice, ret |-> first[p].id]
                  /\ pc' = "flux"
                  /\ UNCHANGED <<numentries, idcounter>>
                  /\ \E k \in Conformations :
                       first' = RefreshPicked(WithComplex(first, p, Complex(c.ids, k)), p)
               \/ \* doChoice returns a new complex: the move split the complex
                  /\ Len(c.ids) >= 2
                  /\ idcounter < MaxId
                  /\ last' = [op |-> "split", picked |-> first[p].id,
                              residual |-> w.rchoice, ret |-> NULL]
                  /\ numentries' = numentries + 1
                  /\ idcounter' = idcounter + 1
                  /\ pc' = "flux"
                  /\ \E n \in 1..(Len(c.ids) - 1) :
                     \E k1 \in Conformations, k2 \in Conformations :
                       LET c1 == Complex(SubSeq(c.ids, 1, n), k1)
                           c2 == Complex(SubSeq(c.ids, n + 1, Len(c.ids)), k2)
                       IN first' = SplitList(first, p, c1, c2, idcounter)

\* the routing test with <= in place of <
doBasicChoice_Le(choice, newtime) ==
    IF choice <= joinRate THEN DoJoin(choice) ELSE DoMove(choice)

\* a dispatcher that returns without an event when the deviate is not below
\* joinRate
doBasicChoice_Idle(choice, newtime) ==
    IF choice < joinRate
    THEN DoJoin(choice)
    ELSE /\ last' = NoOp
         /\ pc' = "flux"
         /\ UNCHANGED <<first, numentries, idcounter>>

\* a routing test that counts the time advance into the join window
doBasicChoice_Timed(choice, newtime) ==
    IF choice < joinRate + newtime THEN DoJoin(choice) ELSE DoMove(choice)

\* SComplexList::doBasicChoice( choice, newtime ): newtime is not read
doBasicChoice(choice, newtime) ==
    IF choice < joinRate THEN DoJoin(choice) ELSE DoMove(choice)

\* largest time advance the driver hands to doBasicChoice
MaxTime == 1

\* the time advances of the driver
NewTimes == 0..MaxTime

\* One step of the driver: a deviate in [0, total) and a time advance are
\* handed to doBasicChoice.
StepAt(choice, newtime) ==
    /\ pc = "step"
    /\ doBasicChoice(choice, newtime)
    /\ UNCHANGED <<joinRate, total, stoplist, stopResult>>

StepWith(choice) == \E newtime \in NewTimes : StepAt(choice, newtime)

Step == \E choice \in 0..(total - 1) : StepWith(choice)

Next == AddComplex \/ InitializeList \/ GetTotalFlux \/ Step

\* The driver follows the protocol of the simulation loop: getTotalFlux before
\* every step, the deviate drawn below the total it returned.
Spec == Init /\ [][Next]_vars

----------------------------------------------------------------------------
(* A driver that does not follow the protocol *)

\* largest deviate the unconstrained driver hands to doBasicChoice
MaxChoice == 5

\* The driver goes on to the next step without calling getTotalFlux: joinRate
\* is that of an earlier ensemble, and the driver holds no total.
SkipFlux ==
    /\ pc = "flux"
    /\ pc' = "step"
    /\ total' = 0
    /\ last' = [NoOp EXCEPT !.op = "skip"]
    /\ UNCHANGED <<first, numentries, idcounter, joinRate, stoplist, stopResult>>

\* doBasicChoice called with any deviate, also one that is not below the
\* total flux, and also when the total flux is 0.
StepAnyWith(choice) ==
    /\ pc \in {"step", "dead"}
    /\ \E newtime \in NewTimes : doBasicChoice(choice, newtime)
    /\ UNCHANGED <<joinRate, total, stoplist, stopResult>>

StepAny == \E choice \in 0..MaxChoice : StepAnyWith(choice)

NextAny == AddComplex \/ InitializeList \/ GetTotalFlux \/ SkipFlux \/ StepAny

SpecAny == Init /\ [][NextAny]_vars

----------------------------------------------------------------------------
(* The simulation against the contract of performComplexJoin alone: either of
   the two picked complexes may be the one returned for deletion *)

StepEitherWith(choice) ==
    /\ pc = "step"
    /\ IF choice < joinRate
       THEN \E d \in {0, 1} : DoJoinReturning(choice, d)
       ELSE DoMove(choice)
    /\ UNCHANGED <<joinRate, total, stoplist, stopResult>>

StepEither == \E choice \in 0..(total - 1) : StepEitherWith(choice)

NextEither == AddComplex \/ InitializeList \/ GetTotalFlux \/ StepEither

SpecEither == Init /\ [][NextEither]_vars
----------------------------------------------------------------------------
(* Ensembles for the join-flux computation alone *)

\* entries of an ensemble handed to getTotalFlux
FluxEntries == 3
\* exterior bases of the whole ensemble (all complexes, all four types together)
FluxBases == 4

\* number of bases of a tally
Bases(e) == e.A + e.C + e.G + e.T

\* the tallies of at most n bases
Tallies(n) == { e \in [A : 0..n, C : 0..n, G : 0..n, T : 0..n] : Bases(e) <= n }

\* The driver adds a single strand with any exterior-base tally the budget of
\* the ensemble allows; the complex has no move of its own.
AddTally ==
    /\ pc = "setup"
    /\ numentries < FluxEntries
    /\ \E e \in Tallies(FluxBases - Bases(SumBases(first))) :
         LET c == Complex(<<idcounter + 1>>, [ext |-> e, flux |-> 0, energy |-> 0])
         IN first' = addComplex(first, c, idcounter)
    /\ last' = [NoOp EXCEPT !.op = "add", !.ret = idcounter]
    /\ numentries' = numentries + 1
    /\ idcounter' = idcounter + 1
    /\ UNCHANGED <<joinRate, total, pc, stoplist, stopResult>>

NextFlux == AddTally \/ InitializeList \/ GetTotalFlux

\* getTotalFlux on an initialized ensemble with any exterior-base tallies
SpecFlux == Init /\ [][NextFlux]_vars

\* doBasicChoice with a deviate below the join flux: the join branch
JoinStep ==
    /\ pc = "step"
    /\ \E choice \in 0..(joinRate - 1) : DoJoin(choice)
    /\ UNCHANGED <<joinRate, total, stoplist, stopResult>>

NextJoin == AddTally \/ InitializeList \/ GetTotalFlux \/ JoinStep

\* joins in ensembles with any exterior-base tallies
SpecJoin == Init /\ [][NextJoin]_vars

----------------------------------------------------------------------------
(* SComplexList: stop conditions *)

\* predicate kinds of a complex_item
STOPTYPE_STRUCTURE == "STRUCTURE"
STOPTYPE_DISASSOC == "DISASSOC"
STOPTYPE_LOOSE_STRUCTURE == "LOOSE_STRUCTURE"
STOPTYPE_PERCENT_OR_COUNT_STRUCTURE == "PERCENT_OR_COUNT_STRUCTURE"
STOPTYPE_BOUND == "BOUND"

\* StrandComplex::getStructure: the dot-paren string of the complex, one
\* character per base, two bases per strand, strands in the order of c.ids
getStructure(c) == c.struc

\* the strand of c.ids that owns position p of the structure
StrandAt(c, p) == c.ids[(p + 1) \div 2]

\* StrandComplex::checkIDBound: the strand is in the complex and one of its
\* bases is paired
checkIDBound(c, id) ==
    \E p \in 1..Len(c.struc) : StrandAt(c, p) = id /\ c.struc[p] # "."

\* the circular rotation of ids that starts at position r + 1
Rotate(ids, r) == [k \in 1..Len(ids) |-> ids[((k - 1 + r) % Len(ids)) + 1]]

\* StrandComplex::checkIDList: the complex has id_count strands and its id
\* list equals stop_ids up to a circular rotation
checkIDList(c, stop_ids, id_count) ==
    /\ Len(c.ids) = id_count
    /\ \E r \in 0..(id_count - 1) : Rotate(c.ids, r) = stop_ids

\* our_pairs.back() / stop_pairs.back()
Back(stack) == stack[Len(stack)]

\* our_pairs.pop_back() / stop_pairs.pop_back()
PopBack(stack) == SubSeq(stack, 1, Len(stack) - 1)

RECURSIVE MatchLoop_Hamming(_, _, _, _, _, _, _)
\* the loop that compares the characters only
MatchLoop_Hamming(our_struc, stop_struc, loop, our_pairs, stop_pairs, remaining_distance, wild) ==
    IF loop > Len(our_struc) THEN "true"
    ELSE
      LET d1 == IF (~(wild /\ stop_struc[loop] = "*")) /\ our_struc[loop] # stop_struc[loop]
                THEN remaining_distance - 1 ELSE remaining_distance
      IN IF d1 < 0 THEN "false"
         ELSE MatchLoop_Hamming(our_struc, stop_struc, loop + 1, our_pairs, stop_pairs, d1, wild)

RECURSIVE MatchLoop_ExitAtZero(_, _, _, _, _, _, _)
\* the loop that gives up as soon as remaining_distance is used up
MatchLoop_ExitAtZero(our_struc, stop_struc, loop, our_pairs, stop_pairs, remaining_distance, wild) ==
    IF remaining_distance <= 0 THEN "false"
    ELSE IF loop > Len(our_struc) THEN "true"
    ELSE
      LET d1 == IF (~(wild /\ stop_struc[loop] = "*")) /\ our_struc[loop] # stop_struc[loop]
                THEN remaining_distance - 1 ELSE remaining_distance
      IN MatchLoop_ExitAtZero(our_struc, stop_struc, loop + 1, our_pairs, stop_pairs, d1, wild)

RECURSIVE MatchLoop(_, _, _, _, _, _, _)
\* The for loop of checkLooseStructure, lines 718-768, from position loop on
\* (wild = TRUE: a '*' of the target is not compared). Positions are counted
\* from 1. The value is "true", "false", or "ub" when back() or pop_back() is
\* called on an empty vector.
MatchLoop(our_struc, stop_struc, loop, our_pairs, stop_pairs, remaining_distance, wild) ==
    IF loop > Len(our_struc) THEN "true"
    ELSE
      LET o == our_struc[loop]
          s == stop_struc[loop]
          d1 == IF (~(wild /\ s = "*")) /\ o # s
                THEN remaining_distance - 1 ELSE remaining_distance
          op1 == IF o = "(" THEN Append(our_pairs, loop) ELSE our_pairs
          sp1 == IF s = "(" THEN Append(stop_pairs, loop) ELSE stop_pairs
          both == o = ")" /\ s = ")"
          empty == \/ (o = ")" /\ op1 = <<>>)
                   \/ (s = ")" /\ sp1 = <<>>)
          d2 == IF both
                THEN IF Back(op1) # Back(sp1)
                     THEN IF our_struc[Back(sp1)] = "(" THEN d1 - 2 ELSE d1 - 1
                     ELSE d1
                ELSE IF s = ")" /\ our_struc[Back(sp1)] = "(" THEN d1 - 1 ELSE d1
          op2 == IF o = ")" THEN PopBack(op1) ELSE op1
          sp2 == IF s = ")" THEN PopBack(sp1) ELSE sp1
      IN IF empty THEN "ub"
         ELSE IF d2 < 0 THEN "false"
         ELSE MatchLoop(our_struc, stop_struc, loop + 1, op2, sp2, d2, wild)

\* checkLooseStructure that compares the wildcard positions too
checkLooseStructure_NoWild(our_struc, stop_struc, count) ==
    IF Len(our_struc) # Len(stop_struc) THEN "false"
    ELSE MatchLoop(our_struc, stop_struc, 1, <<>>, <<>>, count, FALSE)

\* SComplexList::checkLooseStructure
checkLooseStructure(our_struc, stop_struc, count) ==
    IF Len(our_struc) # Len(stop_struc) THEN "false"
    ELSE MatchLoop(our_struc, stop_struc, 1, <<>>, <<>>, count, TRUE)

RECURSIVE CountLoop(_, _, _, _, _, _)
\* The for loop of checkCountStructure, lines 785-834, from position loop on:
\* every character of the target is compared. Same values as MatchLoop.
CountLoop(our_struc, stop_struc, loop, our_pairs, stop_pairs, remaining_distance) ==
    IF loop > Len(our_struc) THEN "true"
    ELSE
      LET o == our_struc[loop]
          s == stop_struc[loop]
          d1 == IF o # s THEN remaining_distance - 1 ELSE remaining_distance
          op1 == IF o = "(" THEN Append(our_pairs, loop) ELSE our_pairs
          sp1 == IF s = "(" THEN Append(stop_pairs, loop) ELSE stop_pairs
      IN IF o = ")" /\ s = ")"
         THEN IF op1 = <<>> \/ sp1 = <<>> THEN "ub"
              ELSE LET d2 == IF Back(op1) = Back(sp1) THEN d1
                             ELSE IF our_struc[Back(sp1)] = "(" THEN d1 - 2
                             ELSE d1 - 1
                   IN IF d2 < 0 THEN "false"
                      ELSE CountLoop(our_struc, stop_struc, loop + 1,
                                     PopBack(op1), PopBack(sp1), d2)
         ELSE IF o = ")"
         THEN IF op1 = <<>> THEN "ub"
              ELSE IF d1 < 0 THEN "false"
              ELSE CountLoop(our_struc, stop_struc, loop + 1, PopBack(op1), sp1, d1)
         ELSE IF s = ")"
         THEN IF sp1 = <<>> THEN "ub"
              ELSE LET d2 == IF our_struc[Back(sp1)] = "(" THEN d1 - 1 ELSE d1
                   IN IF d2 < 0 THEN "false"
                      ELSE CountLoop(our_struc, stop_struc, loop + 1, op1, PopBack(sp1), d2)
         ELSE IF d1 < 0 THEN "false"
         ELSE CountLoop(our_struc, stop_struc, loop + 1, op1, sp1, d1)

\* checkCountStructure that counts the differing characters only
checkCountStructure_Plain(our_struc, stop_struc, count) ==
    IF Len(our_struc) # Len(stop_struc) THEN "false"
    ELSE MatchLoop_Hamming(our_struc, stop_struc, 1, <<>>, <<>>, count, FALSE)

\* checkCountStructure that tolerates one disagreement more than count
checkCountStructure_OneMore(our_struc, stop_struc, count) ==
    IF Len(our_struc) # Len(stop_struc) THEN "false"
    ELSE CountLoop(our_struc, stop_struc, 1, <<>>, <<>>, count + 1)

\* SComplexList::checkCountStructure
checkCountStructure(our_struc, stop_struc, count) ==
    IF Len(our_struc) # Len(stop_struc) THEN "false"
    ELSE CountLoop(our_struc, stop_struc, 1, <<>>, <<>>, count)

\* "true" / "false" for a boolean
Flag(b) == IF b THEN "true" ELSE "false"

\* an inner-loop body that compares a Loose target character by character,
\* as it does an exact one
TestEntry_LooseAsExact(entry, item) ==
    LET c == entry.thisComplex
    IN IF ~checkIDList(c, item.strand_ids, Len(item.strand_ids)) THEN "false"
       ELSE IF item.type \in {STOPTYPE_STRUCTURE, STOPTYPE_LOOSE_STRUCTURE}
            THEN Flag(getStructure(c) = item.structure)
       ELSE IF item.type = STOPTYPE_DISASSOC
            THEN "true"
       ELSE IF item.type = STOPTYPE_PERCENT_OR_COUNT_STRUCTURE
            THEN checkCountStructure(getStructure(c), item.structure, item.count)
       ELSE "false"

\* an inner-loop body that skips the strand-id test
TestEntry_AnyIds(entry, item) ==
    LET c == entry.thisComplex
    IN IF item.type = STOPTYPE_STRUCTURE
       THEN Flag(getStructure(c) = item.structure)
       ELSE IF item.type = STOPTYPE_DISASSOC
       THEN "true"
       ELSE IF item.type = STOPTYPE_LOOSE_STRUCTURE
       THEN checkLooseStructure(getStructure(c), item.structure, item.count)
       ELSE IF item.type = STOPTYPE_PERCENT_OR_COUNT_STRUCTURE
       THEN checkCountStructure(getStructure(c), item.structure, item.count)
       ELSE "false"

\* the body of the inner loop of checkStopComplexList_Structure_Disassoc:
\* the value of successflag after testing one entry against one predicate
TestEntry(entry, item) ==
    LET c == entry.thisComplex
    IN IF ~checkIDList(c, item.strand_ids, Len(item.strand_ids)) THEN "false"
       ELSE IF item.type = STOPTYPE_STRUCTURE
            THEN Flag(getStructure(c) = item.structure)
       ELSE IF item.type = STOPTYPE_DISASSOC
            THEN "true"
       ELSE IF item.type = STOPTYPE_LOOSE_STRUCTURE
            THEN checkLooseStructure(getStructure(c), item.structure, item.count)
       ELSE IF item.type = STOPTYPE_PERCENT_OR_COUNT_STRUCTURE
            THEN checkCountStructure(getStructure(c), item.structure, item.count)
       ELSE "false"

RECURSIVE ScanEntries(_, _, _)
\* the inner loop: entries from position i on, until one sets successflag
ScanEntries(list, item, i) ==
    IF i > Len(list) THEN "false"
    ELSE LET r == TestEntry(list[i], item)
         IN IF r = "false" THEN ScanEntries(list, item, i + 1) ELSE r

RECURSIVE EvalItems_Any(_, _, _)
\* an outer loop that succeeds on the first matched predicate
EvalItems_Any(list, items, t) ==
    IF t > Len(items) THEN "false"
    ELSE LET r == ScanEntries(list, items[t], 1)
         IN IF r = "false" THEN EvalItems_Any(list, items, t + 1) ELSE r

RECURSIVE EvalItems(_, _, _)
\* the outer loop: predicates from position t on, until one is not matched
EvalItems(list, items, t) ==
    IF t > Len(items) THEN "true"
    ELSE LET r == ScanEntries(list, items[t], 1)
         IN IF r = "true" THEN EvalItems(list, items, t + 1) ELSE r

\* the evaluator without the test of max_complexes against numentries
checkStopComplexList_Structure_Disassoc_NoLimit(list, n, items) ==
    EvalItems(list, items, 1)

\* SComplexList::checkStopComplexList_Structure_Disassoc
checkStopComplexList_Structure_Disassoc(list, n, items) ==
    IF Len(items) > n THEN "false" ELSE EvalItems(list, items, 1)

RECURSIVE BoundInSome(_, _, _)
\* the inner loop of checkStopComplexList_Bound: k_flag # 0 at its end
BoundInSome(list, id, i) ==
    IF i > Len(list) THEN FALSE
    ELSE IF checkIDBound(list[i].thisComplex, id) THEN TRUE
    ELSE BoundInSome(list, id, i + 1)

RECURSIVE BoundAll(_, _, _)
\* the outer loop of checkStopComplexList_Bound over the listed strand ids
BoundAll(list, ids, k) ==
    IF k > Len(ids) THEN "true"
    ELSE IF ~BoundInSome(list, ids[k], 1) THEN "false"
    ELSE BoundAll(list, ids, k + 1)

\* a Bound check that looks at the head predicate of any list
checkStopComplexList_Bound_Multi(list, items) ==
    BoundAll(list, items[1].strand_ids, 1)

\* SComplexList::checkStopComplexList_Bound; "error" is the false that comes
\* with the message on stderr
checkStopComplexList_Bound(list, items) ==
    IF Len(items) > 1 THEN "error" ELSE BoundAll(list, items[1].strand_ids, 1)

\* SComplexList::checkStopComplexList
checkStopComplexList(list, n, items) ==
    IF items[1].type = STOPTYPE_BOUND
    THEN checkStopComplexList_Bound(list, items)
    ELSE checkStopComplexList_Structure_Disassoc(list, n, items)

----------------------------------------------------------------------------
(* Ensembles and predicate lists for the stop conditions *)

\* longest predicate list handed to checkStopComplexList
StopLen == 2
\* largest tolerance (count) of a Loose or Count predicate
Tolerance == 1

\* a complex of the given strands in the given structure; it has no exterior
\* base and no move, which the stop conditions never look at
StopComplex(ids, struc) ==
    [ids |-> ids, ext |-> ZeroBases, flux |-> 0, energy |-> 0, struc |-> struc]

\* the structures of a single strand of two bases
OneStrandStructures == { <<".", ".">>, <<"(", ")">> }

\* the structures of a complex of two strands: at least one pair joins them
TwoStrandStructures ==
    { <<"(", "(", ")", ")">>, <<"(", ".", ".", ")">>, <<".", "(", ")", ".">>,
      <<"(", ".", ")", ".">>, <<".", "(", ".", ")">> }

\* the list after addComplex of each complex of cs in turn and initializeList
RECURSIVE Built(_, _)
Built(cs, k) ==
    IF k = 0 THEN <<>> ELSE addComplex(Built(cs, k - 1), cs[k], k - 1)

\* the ensembles of the strands 1 and 2: apart in either insertion order, or
\* joined in one complex whose id list starts with either strand
StopEnsembles ==
    { initializeList(Built(<<StopComplex(<<a>>, s), StopComplex(<<3 - a>>, t)>>, 2)) :
        a \in {1, 2}, s \in OneStrandStructures, t \in OneStrandStructures }
    \cup
    { initializeList(Built(<<StopComplex(<<a, 3 - a>>, s)>>, 1)) :
        a \in {1, 2}, s \in TwoStrandStructures }

\* a complex_item without its next link
Item(type, strand_ids, structure, count) ==
    [type |-> type, strand_ids |-> strand_ids, structure |-> structure, count |-> count]

\* the predicates the driver may hand over
StopItems ==
    { Item(STOPTYPE_BOUND, ids, <<>>, 0) : ids \in {<<1>>, <<2>>, <<1, 2>>} }
    \cup
    { Item(STOPTYPE_DISASSOC, ids, <<>>, 0) : ids \in {<<1>>, <<2>>, <<1, 2>>, <<2, 1>>} }
    \cup
    { Item(STOPTYPE_STRUCTURE, <<1>>, s, 0) : s \in OneStrandStructures }
    \cup
    { Item(STOPTYPE_STRUCTURE, <<2>>, <<".", ".">>, 0),
      Item(STOPTYPE_STRUCTURE, <<1, 2>>, <<"(", "(", ")", ")">>, 0),
      Item(STOPTYPE_STRUCTURE, <<2, 1>>, <<"(", ".", ".", ")">>, 0),
      Item(STOPTYPE_STRUCTURE, <<1, 2>>, <<".", "(", ")", ".">>, 0) }
    \cup
    { Item(STOPTYPE_LOOSE_STRUCTURE, x[1], x[2], count) :
        x \in { << <<1>>, <<"*", "*">> >>,
                << <<1>>, <<"*", ")">> >>,
                << <<2>>, <<".", ".">> >>,
                << <<1, 2>>, <<"(", "*", "*", ")">> >>,
                << <<1, 2>>, <<"*", "*", "*", ")">> >>,
                << <<1, 2>>, <<"(", ")", "(", ")">> >> },
        count \in {0, Tolerance} }
    \cup
    { Item(STOPTYPE_PERCENT_OR_COUNT_STRUCTURE, x[1], x[2], count) :
        x \in { << <<1>>, <<"(", ")">> >>,
                << <<2>>, <<".", ".">> >>,
                << <<1, 2>>, <<"(", "(", ")", ")">> >>,
                << <<1, 2>>, <<".", ".", ".", ".">> >> },
        count \in {0, Tolerance} }

\* the non-empty predicate lists of at most StopLen predicates
StopLists == UNION { [1..n -> StopItems] : n \in 1..StopLen }

\* an ensemble of initialized complexes, before the stop conditions are checked
InitStop ==
    /\ first \in StopEnsembles
    /\ numentries = Len(first)
    /\ idcounter = Len(first)
    /\ joinRate = 0
    /\ total = 0
    /\ pc = "stop"
    /\ last = NoOp
    /\ stoplist = <<>>
    /\ stopResult = FALSE

\* an evaluator that takes the head entry off the list when the list matches
CheckStop_Consuming ==
    /\ pc = "stop"
    /\ \E items \in StopLists :
         LET r == checkStopComplexList(first, numentries, items)
         IN /\ stoplist' = items
            /\ last' = [NoOp EXCEPT !.op = "stop"]
            /\ stopResult' = (r = "true")
            /\ first' = IF r = "true" THEN Tail(first) ELSE first
            /\ numentries' = IF r = "true" THEN numentries - 1 ELSE numentries
    /\ pc' = "done"
    /\ UNCHANGED <<idcounter, joinRate, total>>

\* The driver calls checkStopComplexList(stoplist). A call that reads the back
\* of an empty vector has no defined result: it is recorded as "stopub" and
\* may hand back either boolean.
CheckStop ==
    /\ pc = "stop"
    /\ \E items \in StopLists :
         LET r == checkStopComplexList(first, numentries, items)
         IN /\ stoplist' = items
            /\ last' = [NoOp EXCEPT !.op = IF r = "ub" THEN "stopub"
                                           ELSE IF r = "error" THEN "stoperr"
                                           ELSE "stop"]
            /\ IF r = "ub" THEN stopResult' \in BOOLEAN
               ELSE stopResult' = (r = "true")
    /\ pc' = "done"
    /\ UNCHANGED <<first, numentries, idcounter, joinRate, total>>

\* checkStopComplexList on any of the ensembles with any of the lists
SpecStop == InitStop /\ [][CheckStop]_vars

----------------------------------------------------------------------------
(* One complex and one Loose or Count predicate: the structure matchers *)

\* longest structure of the complex and longest target of the predicate
MatchLen == 4
\* largest tolerance (count) of the predicate
MatchTolerance == 4

RECURSIVE Depth(_, _, _)
\* the number of open parentheses after position p of s, started at depth d;
\* -1 when a ')' closes nothing
Depth(s, p, d) ==
    IF d < 0 THEN -1
    ELSE IF p > Len(s) THEN d
    ELSE Depth(s, p + 1, IF s[p] = "(" THEN d + 1 ELSE IF s[p] = ")" THEN d - 1 ELSE d)

\* a dot-paren string in which every parenthesis has its partner
Balanced(s) == Depth(s, 1, 0) = 0

\* the structures a strand of at most n bases can be in
Structures(n) ==
    UNION { { s \in [1..m -> {"(", ".", ")"}] : Balanced(s) } : m \in 0..n }

\* the target strings of at most n characters
Targets(n) == UNION { [1..m -> {"(", ".", ")", "*"}] : m \in 0..n }

\* a single strand in any structure of at most MatchLen bases
MatchEnsembles ==
    { initializeList(Built(<<StopComplex(<<1>>, s)>>, 1)) : s \in Structures(MatchLen) }

\* a Loose or a Count predicate for that strand with any target and tolerance
MatchItems ==
    { Item(type, <<1>>, t, count) :
        type \in {STOPTYPE_LOOSE_STRUCTURE, STOPTYPE_PERCENT_OR_COUNT_STRUCTURE},
        t \in Targets(MatchLen),
        count \in 0..MatchTolerance }

InitMatch ==
    /\ first \in MatchEnsembles
    /\ numentries = 1
    /\ idcounter = 1
    /\ joinRate = 0
    /\ total = 0
    /\ pc = "stop"
    /\ last = NoOp
    /\ stoplist = <<>>
    /\ stopResult = FALSE

\* The driver calls checkStopComplexList with a single Loose or Count predicate.
CheckMatch ==
    /\ pc = "stop"
    /\ \E item \in MatchItems :
         LET r == checkStopComplexList(first, numentries, <<item>>)
         IN /\ stoplist' = <<item>>
            /\ last' = [NoOp EXCEPT !.op = IF r = "ub" THEN "stopub" ELSE "stop"]
            /\ IF r = "ub" THEN stopResult' \in BOOLEAN
               ELSE stopResult' = (r = "true")
    /\ pc' = "done"
    /\ UNCHANGED <<first, numentries, idcounter, joinRate, total>>

\* checkLooseStructure and checkCountStructure on any structure and target
SpecMatch == InitMatch /\ [][CheckMatch]_vars

----------------------------------------------------------------------------
(* The hairpin of tutorial 03: one strand, moves of one base pair, the four
   macrostates of o_loose *)

\* s = stem + hp + stem.C with stem = GCATGC and hp = AAAA
HairpinSequence ==
    <<"G", "C", "A", "T", "G", "C", "A", "A", "A", "A", "G", "C", "A", "T", "G", "C">>

\* start_complex: "..." on the three domains, no base paired
start_complex == [i \in 1..Len(HairpinSequence) |-> "."]

pathway_endside_loose_complex ==
    <<"(", "(", "(", "*", "*", "*", "*", "*", "*", "*", "*", "*", "*", ")", ")", ")">>

pathway_hpside_loose_complex ==
    <<"*", "*", "*", "(", "(", "(", "*", "*", "*", "*", ")", ")", ")", "*", "*", "*">>

\* full_complex: "(.)" on the three domains
full_complex ==
    <<"(", "(", "(", "(", "(", "(", ".", ".", ".", ".", ")", ")", ")", ")", ")", ")">>

\* the macrostates A, B, C and the stop condition D
initial_sc == Item(STOPTYPE_STRUCTURE, <<1>>, start_complex, 0)
pathway_end_loose_sc ==
    Item(STOPTYPE_LOOSE_STRUCTURE, <<1>>, pathway_endside_loose_complex, 2)
pathway_hp_loose_sc ==
    Item(STOPTYPE_LOOSE_STRUCTURE, <<1>>, pathway_hpside_loose_complex, 2)
full_sc == Item(STOPTYPE_STRUCTURE, <<1>>, full_complex, 0)

\* o_loose.stop_conditions
stop_conditions == <<initial_sc, pathway_end_loose_sc, pathway_hp_loose_sc, full_sc>>

\* Watson-Crick complements
CanPair(x, y) ==
    <<x, y>> \in { <<"A", "T">>, <<"T", "A">>, <<"G", "C">>, <<"C", "G">> }

\* fewest unpaired bases a hairpin loop closes over
MinHairpinLoop == 3

RECURSIVE SegDepth(_, _, _, _)
\* the number of open parentheses of s[p..q], started at depth d; -1 when a
\* ')' closes nothing inside the segment
SegDepth(s, p, q, d) ==
    IF d < 0 THEN -1
    ELSE IF p > q THEN d
    ELSE SegDepth(s, p + 1, q,
                  IF s[p] = "(" THEN d + 1 ELSE IF s[p] = ")" THEN d - 1 ELSE d)

\* the position of the ')' that pairs with the '(' at position i
Mate(s, i) ==
    CHOOSE j \in (i + 1)..Len(s) : s[j] = ")" /\ SegDepth(s, i + 1, j - 1, 0) = 0

\* the structures one base-pair formation away: two unpaired complementary
\* bases of the same loop, far enough apart
FormMoves(s) ==
    { [s EXCEPT ![pr[1]] = "(", ![pr[2]] = ")"] :
        pr \in { q \in (1..Len(s)) \X (1..Len(s)) :
                   /\ q[2] - q[1] > MinHairpinLoop
                   /\ s[q[1]] = "."
                   /\ s[q[2]] = "."
                   /\ CanPair(HairpinSequence[q[1]], HairpinSequence[q[2]])
                   /\ SegDepth(s, q[1] + 1, q[2] - 1, 0) = 0 } }

\* the structures one base-pair breakage away
BreakMoves(s) ==
    { [s EXCEPT ![i] = ".", ![Mate(s, i)] = "."] :
        i \in { p \in 1..Len(s) : s[p] = "(" } }

\* the elementary moves of the strand in structure s
Moves(s) == FormMoves(s) \cup BreakMoves(s)

\* the strand in structure s: one unit of flux per move, one unit of energy
\* per base pair
HairpinComplex(s) ==
    [ids |-> <<1>>, ext |-> ZeroBases,
     flux |-> Cardinality(Moves(s)),
     energy |-> 0 - Cardinality({ p \in 1..Len(s) : s[p] = "(" }),
     struc |-> s]

InitHairpin ==
    /\ first = initializeList(Built(<<HairpinComplex(start_complex)>>, 1))
    /\ numentries = 1
    /\ idcounter = 1
    /\ joinRate = 0
    /\ total = 0
    /\ pc = "step"
    /\ last = NoOp
    /\ stoplist = stop_conditions
    /\ stopResult = FALSE

\* One step of the simulation: getTotalFlux, doBasicChoice on a deviate below
\* it (a move inside the complex), then the test of the stop condition; the
\* simulation ends when full_sc holds.
HairpinStep ==
    /\ pc = "step"
    /\ \E choice \in {0, TotalFlux(first, numentries) - 1} :
         LET w == BasicChoice(first, choice, getJoinFlux(first, numentries))
             p == w.picked
         IN /\ p > 0
            /\ last' = [op |-> "move", picked |-> first[p].id,
                        residual |-> w.rchoice, ret |-> first[p].id]
            /\ \E s \in Moves(getStructure(first[p].thisComplex)) :
                 first' = RefreshPicked(WithComplex(first, p, HairpinComplex(s)), p)
    /\ joinRate' = getJoinFlux(first, numentries)
    /\ total' = TotalFlux(first, numentries)
    /\ stopResult' = (checkStopComplexList(first', numentries, <<full_sc>>) = "true")
    /\ pc' = IF stopResult' THEN "done" ELSE "step"
    /\ UNCHANGED <<numentries, idcounter, stoplist>>

\* the loose-macrostate simulation of the hairpin
SpecHairpin == InitHairpin /\ [][HairpinStep]_vars

----------------------------------------------------------------------------
(* Reference definitions used to state the properties *)

\* positions of the list
Pos(list) == 1..Len(list)

\* ids of the entries of a list
Ids(list) == { list[i].id : i \in Pos(list) }

\* the entry of a list with a given id
EntryOf(list, id) == list[CHOOSE i \in Pos(list) : list[i].id = id]

RECURSIVE SetSum(_, _)
\* sum of f[x] over a finite set
SetSum(f, S) ==
    IF S = {} THEN 0
    ELSE LET x == CHOOSE y \in S : TRUE IN f[x] + SetSum(f, S \ {x})

\* pair_count(i, j): complementary pairings of a base of e with a base of g
pair_count(e, g) == e.A * g.T + e.T * g.A + e.G * g.C + e.C * g.G

\* sum of pair_count over the ordered pairs (i, j), i # j, of a list
OrderedPairSum(list) ==
    LET P == { q \in Pos(list) \X Pos(list) : q[1] # q[2] }
        f == [q \in P |-> pair_count(list[q[1]].thisComplex.ext, list[q[2]].thisComplex.ext)]
    IN SetSum(f, P)

\* the join flux of an ensemble, from scratch
RefJoinFlux(list) == (OrderedPairSum(list) \div 2) * KJoin

\* the sum of the cached rates of an ensemble, from scratch
RefRateSum(list) == SetSum([i \in Pos(list) |-> list[i].rate], Pos(list))

\* sum of the cached rates of the entries before position i
RateBefore(list, i) == RefRateSum(SubSeq(list, 1, i - 1))

----------------------------------------------------------------------------
(* C1: rate conservation *)

\* C1: whenever the driver holds a total returned by getTotalFlux for the
\* current ensemble (after initializeList and any sequence of steps), that
\* total is the sum of the cached rates of the live entries plus the join flux
\* of their current exterior-base tallies, joinRate holds that join flux, and
\* computing the total again on the same ensemble gives the same value.
C1_RateConservation ==
    pc \in {"step", "dead"} =>
        /\ joinRate = RefJoinFlux(first)
        /\ total = RefRateSum(first) + RefJoinFlux(first)
        /\ TotalFlux(first, numentries) = total

\* a total computed after a join, a disassociation and with a positive join flux
C1_Witness ==
    /\ pc = "step"
    /\ idcounter > MaxEntries
    /\ numentries = MaxEntries
    /\ joinRate > 0
    /\ RefRateSum(first) > 0

----------------------------------------------------------------------------
(* C2: dispatcher routing *)

\* the first position i with r - (rates before i) < rate_i, 0 if there is none
RefPick(list, r) ==
    LET C == { i \in Pos(list) : r - RateBefore(list, i) < list[i].rate }
    IN IF C = {} THEN 0 ELSE CHOOSE i \in C : \A j \in C : i <= j

\* what the claim says a step with this deviate does
C2_RoutedAs(choice) ==
    LET r == choice - joinRate
        i == RefPick(first, r)
    IN IF choice < joinRate
       THEN last'.op = "join"
       ELSE /\ last'.op \in {"move", "split"}
            /\ i # 0
            /\ last'.picked = first[i].id
            /\ last'.residual = r - RateBefore(first, i)
            /\ 0 <= last'.residual
            /\ last'.residual < first[i].rate
            /\ first[i].rate > 0
            /\ \A j \in 1..(i - 1) : choice = 0 => first[j].rate = 0

\* C2: a step with 0 <= choice < total goes to the join engine iff
\* choice < joinRate; otherwise the picked entry is the first entry i in list
\* order with choice - joinRate - (rates before i) < rate_i, the residual is
\* that difference and lies in [0, rate_i), an entry with rate 0 is never
\* picked and the assertion never fires; choice = 0 goes to the join engine
\* if the join flux is positive and else to the first entry with positive flux.
C2_Routing ==
    [][ \A choice \in 0..(total - 1) : StepWith(choice) => C2_RoutedAs(choice) ]_vars

\* a move on an entry that is not the head, with a positive residual, in an
\* ensemble whose join flux is positive
C2_Witness ==
    /\ last.op = "move"
    /\ last.residual > 0
    /\ joinRate > 0
    /\ last.picked # first[1].id

----------------------------------------------------------------------------
(* C4: effect of a join *)

RECURSIVE Without(_, _)
\* the list without the entries whose id is in S, order kept
Without(list, S) ==
    IF list = <<>> THEN <<>>
    ELSE IF Head(list).id \in S THEN Without(Tail(list), S)
    ELSE <<Head(list)>> \o Without(Tail(list), S)

\* C4: a join step on n >= 2 entries removes both input complexes as separate
\* entries and leaves exactly one entry holding the merged complex: n - 1
\* entries remain, and every entry not picked is still there, unchanged and in
\* the same order.
C4_JoinEffect ==
    [][ (pc = "step" /\ last'.op = "join") =>
          LET gone == Ids(first) \ Ids(first')
              p0   == last'.picked
          IN /\ numentries >= 2
             /\ numentries' = numentries - 1
             /\ Len(first') = numentries'
             /\ Ids(first') \subseteq Ids(first)
             /\ Cardinality(gone) = 1
             /\ p0 \in Ids(first')
             /\ \A q \in gone :
                  LET c0 == EntryOf(first, p0).thisComplex
                      c1 == EntryOf(first, q).thisComplex
                  IN /\ EntryOf(first', p0).thisComplex.ids = c0.ids \o c1.ids
                     /\ \A i \in Pos(first') :
                          /\ first'[i].thisComplex.ids # c0.ids
                          /\ first'[i].thisComplex.ids # c1.ids
                     /\ Without(first', {p0}) = Without(first, {p0, q})
      ]_vars

\* a join in an ensemble of three entries: one bystander is left
C4_Witness ==
    /\ last.op = "join"
    /\ numentries = 2
    /\ \E i \in Pos(first) : Len(first[i].thisComplex.ids) = 2

----------------------------------------------------------------------------
(* C5: zero-join boundary *)

\* C5: with numentries <= 1 getJoinFlux returns 0 whatever the exterior-base
\* tallies, and in an ensemble of a single complex every step of the protocol
\* is a unimolecular move on that complex, never a join.
C5_ZeroJoin ==
    /\ [](numentries <= 1 =>
            /\ getJoinFlux(first, numentries) = 0
            /\ pc \in {"step", "dead"} => joinRate = 0)
    /\ [][ (pc = "step" /\ numentries = 1) =>
             /\ last'.op \in {"move", "split"}
             /\ last'.picked = first[1].id ]_vars

\* a move on the single complex left by a join, which has an exterior base
C5_Witness ==
    /\ last.op = "move"
    /\ numentries = 1
    /\ Len(first[1].thisComplex.ids) >= 2
    /\ first[1].thisComplex.ext # ZeroBases

----------------------------------------------------------------------------
(* C6: result of a unimolecular move *)

\* the part of C6 that does not depend on the returned entry
C6_Effect(retOfSplit) ==
    /\ last'.op = "split" =>
         /\ numentries' = numentries + 1
         /\ Len(first') = numentries'
         /\ first'[1].id = idcounter
         /\ idcounter \notin Ids(first)
         /\ first'[1] = fillData(first'[1])
         /\ EntryOf(first', last'.picked) = fillData(EntryOf(first', last'.picked))
         /\ Without(first', {idcounter, last'.picked}) = Without(first, {last'.picked})
         /\ last'.ret = retOfSplit
    /\ last'.op = "move" =>
         /\ numentries' = numentries
         /\ Len(first') = numentries'
         /\ EntryOf(first', last'.picked) = fillData(EntryOf(first', last'.picked))
         /\ Without(first', {last'.picked}) = Without(first, {last'.picked})
         /\ last'.ret = last'.picked

\* C6 as amended: a move that splits the picked complex inserts the child as
\* a new entry at the head with a fresh id (numentries + 1), refreshes the
\* caches of the new and of the picked entry, and returns NULL; a move that
\* does not split refreshes the picked entry, leaves numentries unchanged and
\* returns the picked entry.
C6_MoveResult ==
    [][ pc = "step" => C6_Effect(NULL) ]_vars

\* C6 as stated: the step that splits returns the new entry
C6_Original ==
    [][ pc = "step" => C6_Effect(first'[1].id) ]_vars

\* a disassociation has happened in an ensemble that now has MaxEntries entries
C6_Witness ==
    /\ last.op = "split"
    /\ last.ret = NULL
    /\ numentries = MaxEntries
    /\ first[1].rate > 0

----------------------------------------------------------------------------
(* C7: id monotonicity *)

\* C7: ids strictly increase with insertion order (the head is the newest),
\* every live id is below the id counter, the counter never decreases and an
\* entry that appears in the list gets the counter's value as its id, so that
\* no id, live or freed by a join, is ever assigned again.
C7_IdMonotone ==
    /\ [](\A i, j \in Pos(first) : i < j => first[i].id > first[j].id)
    /\ [](\A i \in Pos(first) : 0 <= first[i].id /\ first[i].id < idcounter)
    /\ [][ /\ idcounter' >= idcounter
           /\ (Ids(first') \ Ids(first)) \subseteq {idcounter}
           /\ (Ids(first') \ Ids(first)) # {} => idcounter' = idcounter + 1 ]_vars

\* a disassociation after a join: an id was freed and a new one assigned
C7_Witness ==
    /\ last.op = "split"
    /\ idcounter > MaxEntries
    /\ Cardinality(Ids(first)) < idcounter

----------------------------------------------------------------------------
(* C8: the ensemble never becomes empty *)

\* C8: once the list is initialized with at least one entry, numentries >= 1
\* after every dispatcher step, whatever the deviate and whether or not
\* getTotalFlux was called before the step.
C8_NeverEmpty ==
    pc # "setup" => (numentries >= 1 /\ Len(first) >= 1)

\* doJoinChoice was entered with a single entry and returned at its guard
C8_Witness ==
    /\ last.op = "nojoin"
    /\ numentries = 1

----------------------------------------------------------------------------
(* C3: join symmetry *)

\* the ensemble of the two single-base complexes A and T
TwoBases ==
    LET cA == Complex(<<1>>, [ext |-> [ZeroBases EXCEPT !.A = 1], flux |-> 0, energy |-> 0])
        cT == Complex(<<2>>, [ext |-> [ZeroBases EXCEPT !.T = 1], flux |-> 0, energy |-> 0])
    IN initializeList(addComplex(addComplex(<<>>, cA, 0), cT, 1))

----------------------------------------------------------------------------
(* Stop conditions *)

\* the entry matches the predicate: strand-id list and the test of its kind
Satisfies(entry, item) == TestEntry(entry, item) = "true"

\* every predicate of the list is matched by at least one live complex
AllSatisfied(list, items) ==
    \A t \in 1..Len(items) : \E i \in Pos(list) : Satisfies(list[i], items[t])

\* a list of Exact / Disassoc / Loose / Count predicates
StructureList(items) ==
    \A t \in 1..Len(items) : items[t].type # STOPTYPE_BOUND

\* C9: for a list of Exact / Disassoc / Loose / Count predicates that is no
\* longer than the number of live complexes, checkStopComplexList returns true
\* exactly when every predicate is matched by at least one live complex (one
\* complex may match several); a longer list yields false whatever matches.
\* Calls that read an empty pair stack have no defined result and are left out.
C9_AndSemantics ==
    (pc = "done" /\ last.op = "stop" /\ StructureList(stoplist)) =>
        /\ Len(stoplist) <= numentries =>
             (stopResult <=> AllSatisfied(first, stoplist))
        /\ Len(stoplist) > numentries => ~stopResult

\* C9 as stated: the result is true exactly when every predicate is matched by
\* at least one live complex, whatever the length of the list
C9_Original ==
    (pc = "done" /\ last.op = "stop" /\ StructureList(stoplist)) =>
        (stopResult <=> AllSatisfied(first, stoplist))

\* two complexes, two predicates of different kinds, both matched by the same
\* complex and by no other, and the result is true
C9_Witness ==
    /\ pc = "done"
    /\ last.op = "stop"
    /\ numentries = 2
    /\ Len(stoplist) = 2
    /\ stoplist[1].type = STOPTYPE_DISASSOC
    /\ stoplist[2].type = STOPTYPE_PERCENT_OR_COUNT_STRUCTURE
    /\ \E i \in Pos(first) :
         /\ Satisfies(first[i], stoplist[1])
         /\ Satisfies(first[i], stoplist[2])
         /\ \A j \in Pos(first) \ {i} :
              ~Satisfies(first[j], stoplist[1]) /\ ~Satisfies(first[j], stoplist[2])
    /\ stopResult

\* C10: with a Bound predicate at the head, a list of more than one predicate
\* yields false together with the error message, whatever the ensemble; a
\* single Bound predicate yields true iff each listed strand id is bound in at
\* least one live complex, and false as soon as one id is bound in none.
C10_Bound ==
    (pc = "done" /\ stoplist[1].type = STOPTYPE_BOUND) =>
        /\ Len(stoplist) > 1 => (~stopResult /\ last.op = "stoperr")
        /\ Len(stoplist) = 1 =>
             /\ last.op = "stop"
             /\ stopResult <=>
                  \A k \in 1..Len(stoplist[1].strand_ids) :
                     \E i \in Pos(first) :
                        checkIDBound(first[i].thisComplex, stoplist[1].strand_ids[k])

\* a single Bound predicate lists two strands that are bound in two different
\* complexes, and the result is true
C10_Witness ==
    /\ pc = "done"
    /\ Len(stoplist) = 1
    /\ stoplist[1].type = STOPTYPE_BOUND
    /\ Len(stoplist[1].strand_ids) = 2
    /\ numentries = 2
    /\ \A i \in Pos(first) :
          \E k \in 1..2 : ~checkIDBound(first[i].thisComplex, stoplist[1].strand_ids[k])
    /\ stopResult

\* the entries whose strand-id list matches that of the predicate
Matching(list, item) ==
    { i \in Pos(list) :
        checkIDList(list[i].thisComplex, item.strand_ids, Len(item.strand_ids)) }

\* C11: a list whose head is not a Bound predicate and that holds more
\* predicates than there are live complexes yields false, and no predicate is
\* tested: the call is defined even when a predicate of the list would read an
\* empty pair stack if it were tested.
C11_TooLong ==
    (pc = "done" /\ stoplist[1].type # STOPTYPE_BOUND /\ Len(stoplist) > numentries) =>
        (~stopResult /\ last.op = "stop")

\* one complex, two predicates: the first is matched, the second would read
\* an empty pair stack if it were tested against the complex
C11_Witness ==
    /\ pc = "done"
    /\ numentries = 1
    /\ Len(stoplist) = 2
    /\ TestEntry(first[1], stoplist[1]) = "true"
    /\ TestEntry(first[1], stoplist[2]) = "ub"
    /\ ~stopResult
    /\ last.op = "stop"

\* C12: for a single predicate, Disassoc is matched iff some complex has a
\* matching strand-id list, whatever its structure; Exact is matched iff some
\* complex with a matching strand-id list has a structure equal to the target
\* character for character; a predicate of any kind is matched by no complex
\* whose strand-id list does not match.
C12_ExactDisassoc ==
    (pc = "done" /\ last.op = "stop" /\ Len(stoplist) = 1
        /\ stoplist[1].type # STOPTYPE_BOUND) =>
        LET item == stoplist[1]
            M == Matching(first, item)
        IN /\ item.type = STOPTYPE_DISASSOC => (stopResult <=> M # {})
           /\ item.type = STOPTYPE_STRUCTURE =>
                (stopResult <=>
                   \E i \in M :
                      /\ Len(first[i].thisComplex.struc) = Len(item.structure)
                      /\ \A p \in 1..Len(item.structure) :
                            first[i].thisComplex.struc[p] = item.structure[p])
           /\ M = {} => ~stopResult

\* an Exact predicate whose target is the structure of a complex with another
\* strand-id list, while the complex with the matching list has another
\* structure: the result is false
C12_Witness ==
    /\ pc = "done"
    /\ Len(stoplist) = 1
    /\ stoplist[1].type = STOPTYPE_STRUCTURE
    /\ Matching(first, stoplist[1]) # {}
    /\ \E i \in Pos(first) \ Matching(first, stoplist[1]) :
          first[i].thisComplex.struc = stoplist[1].structure
    /\ ~stopResult

----------------------------------------------------------------------------
(* Structure matchers *)

\* the structure of the single complex, and target, tolerance and kind of the
\* single predicate it was tested against
Our == first[1].thisComplex.struc
Target == stoplist[1].structure
Tol == stoplist[1].count
LooseCall == pc = "done" /\ stoplist[1].type = STOPTYPE_LOOSE_STRUCTURE
CountCall == pc = "done" /\ stoplist[1].type = STOPTYPE_PERCENT_OR_COUNT_STRUCTURE

\* C13: for our structure "(())" and target "()()" the Loose match fails for
\* every tolerance below 4 and succeeds with tolerance 4: the distance is 4.
C13_LooseDistance ==
    (LooseCall /\ Our = <<"(", "(", ")", ")">> /\ Target = <<"(", ")", "(", ")">>) =>
        (last.op = "stop" /\ (stopResult <=> Tol >= 4))

\* C13 as stated: the distance is 2, so that the match fails with tolerance 1
\* and succeeds with tolerance 2
C13_Original ==
    (LooseCall /\ Our = <<"(", "(", ")", ")">> /\ Target = <<"(", ")", "(", ")">>) =>
        (last.op = "stop" /\ (stopResult <=> Tol >= 2))

\* "(())" was matched against "()()" with tolerance 4, successfully
C13_Witness ==
    /\ LooseCall
    /\ Our = <<"(", "(", ")", ")">>
    /\ Target = <<"(", ")", "(", ")">>
    /\ Tol = 4
    /\ stopResult

\* the outcome of the call: "ub" when it read an empty pair stack
Outcome == IF last.op = "stopub" THEN "ub" ELSE Flag(stopResult)

\* C14: a Loose predicate whose target is the structure itself matches with
\* every tolerance, 0 included, and a Loose match with tolerance k is a Loose
\* match with tolerance k + 1.
C14_LooseMonotone ==
    (LooseCall /\ last.op = "stop") =>
        /\ Target = Our => stopResult
        /\ stopResult => checkLooseStructure(Our, Target, Tol + 1) = "true"

\* a Loose match with a target that differs from the structure, at the
\* smallest tolerance that matches
C14_Witness ==
    /\ LooseCall
    /\ last.op = "stop"
    /\ stopResult
    /\ Target # Our
    /\ Tol >= 1
    /\ checkLooseStructure(Our, Target, Tol - 1) = "false"

\* the number of wildcards of a target
Stars(t) == Cardinality({ p \in 1..Len(t) : t[p] = "*" })

\* C15: on a target without '*' checkCountStructure and checkLooseStructure
\* have the same outcome for every structure and tolerance; on any target the
\* Count match is the Loose match with the tolerance lowered by one for each
\* '*' of the target.
C15_CountIsLoose ==
    /\ (pc = "done" /\ Stars(Target) = 0) =>
          /\ LooseCall => Outcome = checkCountStructure(Our, Target, Tol)
          /\ CountCall => Outcome = checkLooseStructure(Our, Target, Tol)
    /\ (CountCall /\ last.op = "stop") =>
          (stopResult <=>
             /\ Stars(Target) <= Tol
             /\ checkLooseStructure(Our, Target, Tol - Stars(Target)) = "true")

\* a Count match on a target without '*' that pairs the bases differently
C15_Witness ==
    /\ CountCall
    /\ Our = <<"(", "(", ")", ")">>
    /\ Target = <<"(", ")", "(", ")">>
    /\ stopResult

\* C16: a Loose target of '*' only matches every structure of its length
\* with every tolerance and no structure of another length; a target of
\* length 0, Loose or Count, matches the empty structure only.
C16_AllWildcards ==
    /\ (LooseCall /\ Stars(Target) = Len(Target)) =>
          (last.op = "stop" /\ (stopResult <=> Len(Our) = Len(Target)))
    /\ (pc = "done" /\ Len(Target) = 0) =>
          (last.op = "stop" /\ (stopResult <=> Our = <<>>))

\* the structure "(())" matches the target "****" with tolerance 0
C16_Witness ==
    /\ LooseCall
    /\ Our = <<"(", "(", ")", ")">>
    /\ Target = <<"*", "*", "*", "*">>
    /\ Tol = 0
    /\ stopResult

----------------------------------------------------------------------------
(* Determinism of the event selection *)

\* a second copy of the ensemble: same order, same entry ids, same cached
\* rates, same exterior bases; other strands, other energies
Scramble(list) ==
    [i \in Pos(list) |->
        [list[i] EXCEPT
            !.energy = @ + 7,
            !.thisComplex.energy = @ - 3,
            !.thisComplex.ids = [k \in 1..Len(@) |-> @[k] + 10]]]

\* the event doBasicChoice selects in a list with n entries and cached join
\* rate jr: the routing, and either the join handed to performComplexJoin or
\* the position of the picked entry and the residual
Select(list, n, jr, choice) ==
    IF choice < jr
    THEN IF n <= 1
         THEN [op |-> "nojoin", join |-> NoJoin, picked |-> 0, residual |-> 0]
         ELSE [op |-> "join", join |-> JoinChoice(list, choice), picked |-> 0, residual |-> 0]
    ELSE LET w == BasicChoice(list, choice, jr)
         IN [op |-> "move", join |-> NoJoin, picked |-> w.picked, residual |-> w.rchoice]

\* the step that was taken is the event sel, selected in a list with the
\* entry ids of the list before the step
Took(sel) ==
    IF sel.op = "nojoin" THEN last'.op = "nojoin" /\ first' = first
    ELSE IF sel.op = "join"
    THEN IF sel.join.p0 = 0 \/ sel.join.p1 = 0
         THEN last'.op = "badjoin"
         ELSE /\ last'.op = "join"
              /\ last'.picked = first[sel.join.p0].id
              /\ Ids(first') = Ids(first) \ {first[sel.join.p1].id}
    ELSE IF sel.picked = 0
         THEN last'.op = "assert"
         ELSE /\ last'.op \in {"move", "split"}
              /\ last'.picked = first[sel.picked].id
              /\ last'.residual = sel.residual
              /\ \A i \in Pos(first) \ {sel.picked} :
                    \E j \in Pos(first') : first'[j] = first[i]

----------------------------------------------------------------------------
(* The evaluator only reads *)

\* C18: a call of checkStopComplexList, with a Bound list or another, matched
\* or not, leaves the ensemble as it was: the same entries in the same order
\* with the same ids, cached energies and rates, and the same numentries, id
\* counter, cached joinRate and total. Every step from "stop" to "done" is
\* such a call.
C18_PureReader ==
    [][ (pc = "stop" /\ pc' = "done") =>
           /\ first' = first
           /\ numentries' = numentries
           /\ idcounter' = idcounter
           /\ joinRate' = joinRate
           /\ total' = total ]_vars

\* a matched Bound predicate on an ensemble whose entry has a cached energy
\* other than 0
C18_Witness ==
    /\ pc = "done"
    /\ stopResult
    /\ last.op = "stop"
    /\ Len(stoplist) = 1
    /\ stoplist[1].type = STOPTYPE_BOUND
    /\ first[1].energy # 0

----------------------------------------------------------------------------
(* Frame of addComplex *)

\* C19: addComplex puts a new entry for the complex at the head with the id
\* counter as its id and with energy and rate 0, whatever the complex reports,
\* and leaves the entries that were there as they were, in their order; the
\* call raises numentries and the id counter by 1 and returns the new entry.
\* The same holds for the entry of the child complex of a disassociation,
\* up to the refresh of the new and of the picked entry.
C19_AddFrame ==
    /\ [](\A k \in Conformations :
            LET c == Complex(<<idcounter + 1>>, k)
                l == addComplex(first, c, idcounter)
            IN /\ Len(l) = Len(first) + 1
               /\ l[1] = [thisComplex |-> c, energy |-> 0, rate |-> 0, id |-> idcounter]
               /\ \A i \in Pos(first) : l[i + 1] = first[i])
    /\ [][ last'.op = "add" =>
              /\ Len(first') = Len(first) + 1
              /\ first'[1].id = idcounter
              /\ first'[1].energy = 0
              /\ first'[1].rate = 0
              /\ \A i \in Pos(first) : first'[i + 1] = first[i]
              /\ numentries' = numentries + 1
              /\ idcounter' = idcounter + 1
              /\ last'.ret = first'[1].id ]_vars
    /\ [][ last'.op = "split" =>
              /\ Len(first') = Len(first) + 1
              /\ first'[1].id = idcounter
              /\ \A i \in Pos(first) :
                    first[i].id # last'.picked => first'[i + 1] = first[i]
              /\ numentries' = numentries + 1
              /\ idcounter' = idcounter + 1 ]_vars

\* a complex that has moves was added to a list of two entries: its entry has
\* the rate 0
C19_Witness ==
    /\ pc = "setup"
    /\ last.op = "add"
    /\ numentries = 3
    /\ first[1].thisComplex.flux > 0
    /\ first[1].rate = 0
    /\ first[1].id = 2

----------------------------------------------------------------------------
(* Hairpin with loose macrostates *)

\* the ensemble is in the macrostate
InState(list, sc) == checkStopComplexList(list, 1, <<sc>>) = "true"

\* no macrostate test of the simulation reads an empty pair stack
HairpinStackSafe ==
    \A k \in 1..Len(stoplist) : checkStopComplexList(first, numentries, <<stoplist[k]>>) # "ub"

\* C20: in the hairpin simulation with the loose macrostates, started in A,
\* the step that first makes D hold leaves a state that satisfies B or C and
\* enters a state that satisfies B or C; the state it leaves is not in A, so
\* no step goes from A to D.
C20_ThroughBOrC ==
    /\ [][ (InState(first', stoplist[4]) /\ ~InState(first, stoplist[4])) =>
              /\ InState(first, stoplist[2]) \/ InState(first, stoplist[3])
              /\ InState(first', stoplist[2]) \/ InState(first', stoplist[3])
              /\ ~InState(first, stoplist[1]) ]_vars
    /\ [](stopResult <=> InState(first, stoplist[4]))
    /\ []HairpinStackSafe

\* the hairpin is fully formed and the simulation has stopped
C20_Witness ==
    /\ pc = "done"
    /\ stopResult
    /\ last.op = "move"
    /\ stoplist = stop_conditions
    /\ getStructure(first[1].thisComplex) = full_complex

----------------------------------------------------------------------------
(* Cache coherence *)

\* the caches of an entry hold what fillData would compute now
Coherent(entry) == entry = fillData(entry)

\* C21: after initializeList and any sequence of steps every entry's cached
\* rate is the flux of its complex and its cached energy is the energy of its
\* complex plus (volume + association) * (strand count - 1), whichever of the
\* two joined complexes performComplexJoin returns for deletion; a step leaves
\* the entries it does not touch as they were.
C21_CacheCoherence ==
    /\ [](pc # "setup" => \A i \in Pos(first) : Coherent(first[i]))
    /\ [][ pc = "step" =>
             \A i \in Pos(first') :
                 (first'[i].id # last'.picked /\ first'[i].id \in Ids(first))
                     => first'[i] = EntryOf(first, first'[i].id) ]_vars

\* a join has left an entry whose cached rate is not the flux of its complex
C21_Stale ==
    /\ last.op = "join"
    /\ \E i \in Pos(first) : first[i].rate # first[i].thisComplex.flux

----------------------------------------------------------------------------
(* The join flux at event selection *)

\* the operations of the join branch of doBasicChoice
JoinOps == {"join", "nojoin", "badjoin"}

\* C22: whenever doBasicChoice selects an event, in any sequence of steps, the
\* joinRate it compares the deviate with is the join flux of the ensemble as
\* it is at that moment, the total the deviate was drawn below is the sum of
\* the cached rates plus that join flux, and the deviate goes to the join
\* engine exactly when it is below that join flux.
C22_JoinFluxAtSelection ==
    /\ [][ pc = "step" =>
             /\ joinRate = getJoinFlux(first, numentries)
             /\ joinRate = RefJoinFlux(first)
             /\ total = RefRateSum(first) + RefJoinFlux(first) ]_vars
    /\ [][ \A choice \in 0..(total - 1) :
             StepWith(choice) =>
               ((last'.op \in JoinOps) <=> (choice < RefJoinFlux(first))) ]_vars

\* a join selected in a step that follows a disassociation: the join flux had
\* changed since the step before
C22_Witness ==
    /\ last.op = "join"
    /\ pc = "flux"
    /\ idcounter > MaxEntries
    /\ numentries = 2

----------------------------------------------------------------------------
(* Validity of the resolved join *)

\* the base type of a code: A = 1, C = 2, G = 3, T = 4
BaseOfType == <<"A", "C", "G", "T">>

\* the Watson-Crick complementary pairs of type codes
ComplementaryTypes == { <<1, 4>>, <<4, 1>>, <<2, 3>>, <<3, 2>> }

\* the move count of the ensemble: joinRate / k_join
MoveCount(list) == total_move_count(list)

\* what doJoinChoice resolves int_choice to
ResolveInt(list, int_choice) == Resolve(list, 1, SumBases(list), int_choice)

\* the arguments of performComplexJoin are two distinct live complexes in list
\* order, complementary types, and indices below the tallies of those types
ValidJoin(list, j) ==
    /\ j.p0 \in Pos(list)
    /\ j.p1 \in Pos(list)
    /\ j.p0 < j.p1
    /\ list[j.p0].id # list[j.p1].id
    /\ <<j.t0, j.t1>> \in ComplementaryTypes
    /\ 0 <= j.i0
    /\ j.i0 < list[j.p0].thisComplex.ext[BaseOfType[j.t0]]
    /\ 0 <= j.i1
    /\ j.i1 < list[j.p1].thisComplex.ext[BaseOfType[j.t1]]

\* C23: in every ensemble with move count m >= 1, every int_choice in [0, m)
\* is resolved to two non-null distinct complexes with picked[0] before
\* picked[1] in the list, a complementary pair of types (A=1, C=2, G=3, T=4),
\* and indices within the exterior bases of those types on the two complexes;
\* and every deviate below joinRate gives such an int_choice.
C23_JoinValid ==
    /\ \A int_choice \in 0..(MoveCount(first) - 1) :
          ValidJoin(first, ResolveInt(first, int_choice))
    /\ pc = "step" =>
          \A choice \in 0..(joinRate - 1) :
             /\ IntChoice(choice) < MoveCount(first)
             /\ ValidJoin(first, JoinChoice(first, choice))

\* the driver holds a total for three complexes and a deviate below joinRate
\* resolves to the first and the third of them with both indices positive
C23_Witness ==
    /\ pc = "step"
    /\ numentries = 3
    /\ \E choice \in 0..(joinRate - 1) :
          LET j == JoinChoice(first, choice)
          IN j.p0 = 1 /\ j.p1 = 3 /\ j.i0 > 0 /\ j.i1 > 0

----------------------------------------------------------------------------
(* The resolution of the join deviate is a bijection *)

\* every pairing of an exterior base of one complex with a complementary
\* exterior base of a complex later in the list: the concrete joins
AllJoins(list) ==
    UNION { { [p0 |-> q[1], p1 |-> q[2], t0 |-> t[1], t1 |-> t[2], i0 |-> u, i1 |-> v] :
                u \in 0..(list[q[1]].thisComplex.ext[BaseOfType[t[1]]] - 1),
                v \in 0..(list[q[2]].thisComplex.ext[BaseOfType[t[2]]] - 1) } :
            q \in { r \in Pos(list) \X Pos(list) : r[1] < r[2] },
            t \in ComplementaryTypes }

\* the joins the deviates below the move count are resolved to
ResolvedJoins(list) ==
    { ResolveInt(list, int_choice) : int_choice \in 0..(MoveCount(list) - 1) }

\* C24: for a fixed ensemble with move count m, no two int_choice in [0, m)
\* are resolved to the same join, and the joins they are resolved to are
\* exactly the pairings of an exterior base of one complex with a
\* complementary exterior base of another complex, each reached once; each
\* join is selected by k_join of the deviates below the join flux.
C24_JoinBijection ==
    /\ \A a, b \in 0..(MoveCount(first) - 1) :
          ResolveInt(first, a) = ResolveInt(first, b) => a = b
    /\ ResolvedJoins(first) = AllJoins(first)
    /\ Cardinality(AllJoins(first)) = MoveCount(first)
    /\ \A j \in AllJoins(first) :
          Cardinality({ choice \in 0..(getJoinFlux(first, numentries) - 1) :
                          JoinChoice(first, choice) = j }) = KJoin

\* three complexes, four concrete joins in more than one channel
C24_Witness ==
    /\ pc = "step"
    /\ numentries = 3
    /\ MoveCount(first) = 4
    /\ Cardinality({ j.t0 : j \in ResolvedJoins(first) }) >= 2
    /\ Cardinality({ j.p1 : j \in ResolvedJoins(first) }) >= 2

----------------------------------------------------------------------------
(* Tie-break of the entry walk *)

\* cumulative sum of the cached rates up to and including position i
CumRate(list, i) == RateBefore(list, i + 1)

\* the first position whose cumulative sum is >= r, 0 if there is none
FirstReaching(list, r) ==
    LET C == { i \in Pos(list) : CumRate(list, i) >= r }
    IN IF C = {} THEN 0 ELSE CHOOSE i \in C : \A j \in C : i <= j

\* the first position whose cumulative sum is > r, 0 if there is none
FirstExceeding(list, r) ==
    LET C == { i \in Pos(list) : CumRate(list, i) > r }
    IN IF C = {} THEN 0 ELSE CHOOSE i \in C : \A j \in C : i <= j

\* a step whose residual is the cumulative sum at position k picks the entry
\* at position Choose(first, residual)
TieBreak(Choose(_, _)) ==
    \A k \in Pos(first) :
       LET r == CumRate(first, k)
       IN (joinRate + r < total /\ StepWith(joinRate + r)) =>
             /\ last'.op \in {"move", "split"}
             /\ Choose(first, r) # 0
             /\ last'.picked = first[Choose(first, r)].id

\* C25: when the residual (choice minus join flux) equals a cumulative sum of
\* the entry walk exactly, the picked entry is the first one whose cumulative
\* sum of cached rates is greater than the residual: the entry at the boundary
\* is passed and the next entry with a positive rate is picked.
C25_TieBreak == [][TieBreak(FirstExceeding)]_vars

\* C25 as stated: the picked entry is the first one whose cumulative sum is
\* greater than or equal to the residual
C25_Original == [][TieBreak(FirstReaching)]_vars

\* a move with residual 0 on an entry that follows an entry with positive rate
C25_Witness ==
    /\ last.op = "move"
    /\ last.residual = 0
    /\ \E i \in Pos(first) :
          /\ first[i].id = last.picked
          /\ RateBefore(first, i) > 0

----------------------------------------------------------------------------
(* Commit or abort *)

\* the ensemble is as it was
SameEnsemble ==
    first' = first /\ numentries' = numentries /\ idcounter' = idcounter

\* the step applied one join, or one move on one complex, or aborted
CommittedOrAborted ==
    \/ /\ last'.op = "join"
       /\ numentries' = numentries - 1
       /\ Cardinality(Ids(first) \ Ids(first')) = 1
       /\ pc' = "flux"
    \/ /\ last'.op = "move"
       /\ Without(first', {last'.picked}) = Without(first, {last'.picked})
       /\ numentries' = numentries
       /\ pc' = "flux"
    \/ /\ last'.op = "split"
       /\ Without(first', {last'.picked, idcounter}) = Without(first, {last'.picked})
       /\ numentries' = numentries + 1
       /\ pc' = "flux"
    \/ /\ last'.op \in {"assert", "badjoin"}
       /\ pc' = "abort"
       /\ SameEnsemble

\* the step returned at the guard of doJoinChoice: no event, no abort
ReturnedIdle ==
    /\ last'.op = "nojoin"
    /\ numentries <= 1
    /\ joinRate > 0
    /\ joinRate # getJoinFlux(first, numentries)
    /\ pc' = "flux"
    /\ SameEnsemble

----------------------------------------------------------------------------
(* numentries and the linked entries *)

----------------------------------------------------------------------------
(* Ownership on join *)

\* C28: a join destroys exactly one entry, the one that owns the complex
\* performComplexJoin returned for deletion, and with it that complex, once;
\* every other entry, those that followed the deleted one included, stays
\* linked in its place with its complex, the entry of the merged complex among
\* them, and no two live entries are the same entry.
C28_JoinOwnership ==
    [][ last'.op = "join" =>
          /\ last'.freed = <<last'.deleted>>
          /\ last'.deleted \in Ids(first)
          /\ last'.deleted \notin Ids(first')
          /\ last'.picked \in Ids(first')
          /\ last'.picked # last'.deleted
          /\ \A i \in Pos(first') : first'[i].id \notin
                                       { last'.freed[k] : k \in 1..Len(last'.freed) }
          /\ Without(first, {last'.deleted, last'.picked})
                = Without(first', {last'.picked})
          /\ [i \in Pos(first') |-> first'[i].id]
                = [i \in 1..(Len(first) - 1) |->
                     Without(first, {last'.deleted})[i].id]
          /\ \A i, j \in Pos(first') : first'[i].id = first'[j].id => i = j
      ]_vars

\* the entry destroyed by a join was the head of three: two entries followed it
C28_Witness ==
    /\ last.op = "join"
    /\ numentries = 2
    /\ \A i \in Pos(first) : first[i].id < last.deleted

----------------------------------------------------------------------------
(* The distance charged by the matcher *)

\* the position paired with position p in a balanced structure, 0 if p is
\* unpaired
PairOf(s, p) ==
    IF s[p] = "(" THEN Mate(s, p)
    ELSE IF s[p] = ")" THEN CHOOSE i \in 1..(p - 1) : s[i] = "(" /\ Mate(s, i) = p
    ELSE 0

\* the number of positions whose pairing differs between two structures
PairDistance(a, b) ==
    Cardinality({ p \in 1..Len(a) : PairOf(a, p) # PairOf(b, p) })

\* the number of positions whose character differs
Hamming(a, b) == Cardinality({ p \in 1..Len(a) : a[p] # b[p] })

\* the target is a balanced structure of the length of ours, without '*'
PlainTarget ==
    /\ pc = "done"
    /\ Len(Target) = Len(Our)
    /\ Stars(Target) = 0
    /\ Balanced(Target)

\* C29: for balanced structures our and target of equal length without '*',
\* the match (Count or Loose) is true exactly when the number of positions
\* whose pairing differs is at most the tolerance: the distance charged is
\* that number, the early exit does not change the result, the distance is at
\* least the Hamming distance of the strings, and the result is the same with
\* our and target exchanged.
C29_PairDistance ==
    PlainTarget =>
        /\ last.op = "stop"
        /\ stopResult <=> (PairDistance(Our, Target) <= Tol)
        /\ PairDistance(Our, Target) >= Hamming(Our, Target)
        /\ PairDistance(Our, Target) = PairDistance(Target, Our)
        /\ CountCall => checkCountStructure(Target, Our, Tol) = Flag(stopResult)
        /\ LooseCall => checkLooseStructure(Target, Our, Tol) = Flag(stopResult)

\* a Count match refused with tolerance 3, above the Hamming distance 2 and
\* below the 4 positions paired differently
C29_Witness ==
    /\ CountCall
    /\ Our = <<"(", ")", "(", ")">>
    /\ Target = <<"(", "(", ")", ")">>
    /\ Tol = 3
    /\ ~stopResult

----------------------------------------------------------------------------
(* Stack safety of the matchers *)

\* C30: for every balanced structure and every target of the same length over
\* '(' ')' '.' '*', the Loose and the Count matcher never call back() or
\* pop_back() on an empty our_pairs or stop_pairs and return a boolean.
C30_StackSafe ==
    (pc = "done" /\ Len(Target) = Len(Our)) => last.op = "stop"

\* the Loose matcher read the top of the empty stop_pairs: the ')' of the
\* target has its opening position under a '*'
C30_EmptyStack ==
    /\ LooseCall
    /\ last.op = "stopub"
    /\ Our = <<"(", ")">>
    /\ Target = <<"*", ")">>
    /\ Tol = 0

----------------------------------------------------------------------------
(* Order of the list *)

\* ids of a list from head to tail
IdSeq(list) == [i \in Pos(list) |-> list[i].id]

\* C31: in every reachable state the ids strictly decrease from head to tail;
\* a join, whichever of the two complexes is deleted, leaves the id counter
\* and the surviving entry's id unchanged and the remaining entries in the
\* order they had; a disassociation puts the child at the head with an id
\* larger than every other id, in front of the entries in their old order.
C31_ListOrder ==
    /\ [](\A i \in 1..(Len(first) - 1) : first[i].id > first[i + 1].id)
    /\ [][ (pc = "step" /\ last'.op = "join") =>
             /\ idcounter' = idcounter
             /\ last'.picked \in Ids(first)
             /\ last'.picked \in Ids(first')
             /\ last'.deleted \notin Ids(first')
             /\ IdSeq(first') = IdSeq(Without(first, {last'.deleted})) ]_vars
    /\ [][ (pc = "step" /\ last'.op = "split") =>
             /\ IdSeq(first') = <<idcounter>> \o IdSeq(first)
             /\ \A i \in Pos(first) : first[i].id < idcounter ]_vars

\* a join of the two older complexes behind the child of an earlier
\* disassociation: the survivor is not at the head
C31_Witness ==
    /\ last.op = "join"
    /\ Len(first) = 2
    /\ first[1].id >= MaxEntries
    /\ last.picked = first[2].id

====
